---- MODULE Spec2Model ----
(***************************************************************************)
(* A model of the debug session protocol engine of packages/debug:         *)
(*   DebugSession         (debug-session.ts)         threads, current      *)
(*                        thread, debounced threads refresh, capabilities  *)
(*   DebugSessionManager  (debug-session-manager.ts) registry, active      *)
(*                        session, the initialize/launch handshake         *)
(* Every handler of the code is one action.  An await is a request put in  *)
(* the session's bag of pending requests; the continuation of the await is *)
(* the action that takes the response out of the bag.                      *)
(***************************************************************************)
EXTENDS Integers, Sequences, FiniteSets, Bags, TLC

(***************************************************************************)
(* Bounds of the model.                                                    *)
(***************************************************************************)
\* at most this many `threads` requests of one session are in flight
MaxInFlight == 1
\* at most this many refresh triggers are counted in one debounce window
MaxTriggers == 2

SessionIds == {"s1", "s2"}
NoSession == "undefined"

\* The thread ids the adapter reports: 0, which JavaScript treats as falsy,
\* and an ordinary one. NoThread is undefined.
ThreadIds == {0, 1}
NoThread == -1

\* Thread objects of one session. An object is only ever stored under the id
\* it was constructed for, so the objects constructed for id i are named
\* ObjsOf(i): three names, for the one in the old map, a current thread that
\* left the map, and the one being constructed. NoObj is undefined.
ObjsOf(id) == {3 * id + g : g \in 1..3}
Objs == UNION {ObjsOf(id) : id \in ThreadIds}
NoObj == 0

\* StoppedDetails (the body of a `stopped` event), and its absence.
NoDetails == [threadId |-> NoThread, preserveFocusHint |-> FALSE]
StoppedDetails == [threadId : ThreadIds, preserveFocusHint : BOOLEAN]

\* DebugProtocol.Capabilities: a record of optional fields. Absent marks a
\* field the record does not have.
CapFields == {"a", "b"}
CapValues == {1, 2, 3}
Absent == 0
Capabilities == [CapFields -> CapValues \cup {Absent}]
NoCapabilities == [f \in CapFields |-> Absent]

\* DebugProtocol.Source: its optional fields path, "" when it has none, and
\* sourceReference, 0 when it has none or has 0. NoSource is undefined.
Paths == {"", "a"}
SourceReferences == {0, 1}
NoSource == [path |-> "", sourceReference |-> -1]
\* Number.prototype.toString()
NumberToString(n) == IF n = 0 THEN "0" ELSE "1"
\* the keys the `sources` Map can have, and the Map without an entry
SourceKeys == (Paths \ {""}) \cup {NumberToString(n) : n \in SourceReferences}
NoSources == [k \in SourceKeys |-> NoSource]
\* A DebugThread object that is not allocated.
FreeThread == [raw |-> NoThread, stoppedDetails |-> NoDetails]

\* The fields of a DebugConfiguration that attach() and launch() assign:
\* noDebug and __restart (restart), each "absent", "true" or "false".
NoMarks == [noDebug |-> "absent", restart |-> "absent"]

\* pauseAll() / continueAll(): which of them ran last (op), the threads it
\* sent a request for (issued), those whose request has not finished
\* (waiting), and how its promise stands (state): "none", "running",
\* "resolved" or "rejected".
NoBatch == [op |-> "none", issued |-> {}, waiting |-> {}, state |-> "none"]

VARIABLES
    sessions,      \* the manager's `sessions` Map: the registered ids in insertion order
    activeDebugSessionId, \* the manager's active session id, or NoSession
    configuration, \* configuration[s].request of the session created under id s
    createResult,  \* createResult[s]: how the promise of create(s, ...) settled
    applying,      \* applying[s]: applySessionBreakpoints(s) calls in progress
    adapter,       \* adapter[s]: the adapter of s has answered `initialize` and speaks
    life,          \* life[s]: "none" | "live" | "disposed"  (the DebugSession object)
    threads,       \* threads[s]: _threads, the Map in insertion order: Seq of [id, obj]
    heap,          \* heap[s][o]: the fields raw.id and stoppedDetails of DebugThread o
    currentThread, \* currentThread[s]: _currentThread, an object or NoObj
    timer,         \* timer[s]: the debounce timer of resolveThreads is armed
    timerArg,      \* timerArg[s]: the argument the armed timer will call with
    pending,       \* pending[s]: bag of requests sent and not yet answered
    capabilities,  \* capabilities[s]: the capabilities record, field -> value or Absent
    sources,       \* sources[s]: the `sources` Map, key -> Source or NoSource
    winTriggers,   \* winTriggers[s]: resolveThreads calls in the current debounce window
    winRequests,   \* winRequests[s]: `threads` requests sent since that window opened
    marks,         \* marks[s]: the fields noDebug and __restart of the configuration of s
    calls,         \* calls[s]: the calls destroying s made to its collaborators, in order
    errorsShown,   \* errorsShown[s]: error messages shown for s by the notification service
    batch,         \* batch[s]: the latest pauseAll() or continueAll() of s
    owed,          \* owed[s]: a thread a `stopped` event named and nothing resumed since
    resumed,       \* resumed[s]: all threads continued and no `stopped` event came since
    fired,         \* the active-session-changed notifications of the manager's last call
    signals,       \* signals[s]: what the last doSetCurrentThread of s did, in order
    last           \* the handler that ran last, with its arguments

sessionVars == <<threads, heap, currentThread, sources>>
debounceVars == <<timer, timerArg, winTriggers, winRequests>>
managerVars == <<sessions, activeDebugSessionId, configuration, createResult, applying>>
effectVars == <<marks, calls, errorsShown>>
historyVars == <<owed, resumed, fired, signals>>
vars == <<sessions, activeDebugSessionId, configuration, createResult, applying, adapter,
          life, threads, heap, currentThread, timer, timerArg, pending,
          capabilities, sources, winTriggers, winRequests, marks, calls, errorsShown,
          batch,
          owed, resumed, fired, signals, last>>

\* What `last` records of the handler that ran last: which one (op), of which
\* session, the thread it named (tid), whether it met the case it is
\* observed for (hit): a refresh that found an id of the old map in the
\* response, a clear that found its thread (or, for all threads, any) Stopped;
\* and how the promise of the launchOrAttach it completed settled (out).
NoLast == [op |-> "other", s |-> NoSession, tid |-> NoThread, hit |-> FALSE, out |-> ""]

(***************************************************************************)
(* Map<number, DebugThread>, kept in insertion order                       *)
(***************************************************************************)
Ids(map) == {map[i].id : i \in 1..Len(map)}
MapObjs(map) == {map[i].obj : i \in 1..Len(map)}
\* Map.get: the object stored under id, NoObj for undefined
MapGet(map, id) ==
    IF id \in Ids(map)
    THEN map[CHOOSE i \in 1..Len(map) : map[i].id = id].obj
    ELSE NoObj
\* Map.set: a known key keeps its place, a new key goes last
MapSet(map, id, obj) ==
    IF id \in Ids(map)
    THEN [i \in 1..Len(map) |->
            IF map[i].id = id THEN [id |-> id, obj |-> obj] ELSE map[i]]
    ELSE Append(map, [id |-> id, obj |-> obj])
\* Map.values().next().value
FirstValue(map) == IF map = <<>> THEN NoObj ELSE map[1].obj

(***************************************************************************)
(* DebugThread (model/debug-thread.ts)                                     *)
(***************************************************************************)
\* DebugThread.state: Stopped exactly when stopped details are present
ThreadState(t) == IF t.stoppedDetails # NoDetails THEN "Stopped" ELSE "Running"
\* DebugThread.update(data): Object.assign(this, data)
ThreadUpdate(hp, thread, data) == [hp EXCEPT ![thread] = data]
\* DebugThread.clear(): drop the stopped details
ThreadClear(hp, thread) == [hp EXCEPT ![thread].stoppedDetails = NoDetails]
\* new DebugThread(connection), constructed for id: an object distinct from
\* every object in use
NewThread(id, inUse) ==
    CHOOSE o \in ObjsOf(id) \ inUse : \A p \in ObjsOf(id) \ inUse : o <= p

\* the ids of the map whose thread is Stopped
StoppedIds(map, hp) == {id \in Ids(map) : ThreadState(hp[MapGet(map, id)]) = "Stopped"}

(***************************************************************************)
(* DebugSession: threads and current thread                                *)
(***************************************************************************)
\* setCurrentThread / doSetCurrentThread: the thread only if it is Stopped
setCurrentThreadUnchecked(hp, thread) == thread
setCurrentThread(hp, thread) ==
    IF thread # NoObj /\ ThreadState(hp[thread]) = "Stopped" THEN thread ELSE NoObj

\* `!!x` of a thread id: undefined and 0 are falsy
Truthy(threadId) == threadId # NoThread /\ threadId # 0

\* updateCurrentThread(stoppedDetails): the new value of _currentThread
updateCurrentThread(map, hp, cur, sd) ==
    LET own == IF cur # NoObj THEN hp[cur].raw ELSE NoThread
        threadId == IF sd # NoDetails /\ ~sd.preserveFocusHint /\ Truthy(sd.threadId)
                    THEN sd.threadId ELSE own
        byId == IF threadId # NoThread THEN MapGet(map, threadId) ELSE NoObj
    IN  setCurrentThread(hp, IF byId # NoObj THEN byId ELSE FirstValue(map))

\* existing.get(id) || new DebugThread(this.connection)
AlwaysNewThread(existing, id, inUse) == NewThread(id, inUse)
ReuseOrNewThread(existing, id, inUse) ==
    IF MapGet(existing, id) # NoObj THEN MapGet(existing, id) ELSE NewThread(id, inUse)

\* the loop of updateThreads over the raw threads of the response
RECURSIVE UpdateLoop(_, _, _, _, _, _)
UpdateLoop(existing, raws, sd, map, hp, inUse) ==
    IF raws = <<>> THEN [threads |-> map, heap |-> hp]
    ELSE LET id == Head(raws)
             thread == ReuseOrNewThread(existing, id, inUse)
             data == [raw |-> id,
                      stoppedDetails |-> IF sd # NoDetails /\ sd.threadId = id
                                         THEN sd ELSE NoDetails]
         IN  UpdateLoop(existing, Tail(raws), sd, MapSet(map, id, thread),
                        ThreadUpdate(hp, thread, data), inUse \cup {thread})

\* objects no longer reachable from the session are returned to the pool
Collect(map, hp, cur) ==
    [o \in Objs |-> IF o \in MapObjs(map) \cup {cur} THEN hp[o] ELSE FreeThread]

\* an updateThreads that fills the existing map instead of a new one
updateThreadsIntoExisting(map, hp, cur, raws, sd) ==
    LET r == UpdateLoop(map, raws, sd, map, hp, MapObjs(map) \cup ({cur} \ {NoObj}))
        c == updateCurrentThread(r.threads, r.heap, cur, sd)
    IN  [threads |-> r.threads, heap |-> Collect(r.threads, r.heap, c), current |-> c]

\* updateThreads(threads, stoppedDetails): the session's new thread state
updateThreads(map, hp, cur, raws, sd) ==
    LET r == UpdateLoop(map, raws, sd, <<>>, hp, MapObjs(map) \cup ({cur} \ {NoObj}))
        c == updateCurrentThread(r.threads, r.heap, cur, sd)
    IN  [threads |-> r.threads, heap |-> Collect(r.threads, r.heap, c), current |-> c]

\* clearThreads(): clear every thread, then recompute the current thread
clearThreads(map, hp, cur) ==
    LET h == [o \in Objs |-> IF o \in MapObjs(map) THEN ThreadClear(hp, o)[o] ELSE hp[o]]
        c == updateCurrentThread(map, h, cur, NoDetails)
    IN  [threads |-> map, heap |-> Collect(map, h, c), current |-> c]

\* a clearThread that clears every thread of the map
clearThreadAndOthers(map, hp, cur, threadId) == clearThreads(map, hp, cur)

\* clearThread(threadId): clear the named thread if known, then recompute
clearThread(map, hp, cur, threadId) ==
    LET thread == MapGet(map, threadId)
        h == IF thread # NoObj THEN ThreadClear(hp, thread) ELSE hp
        c == updateCurrentThread(map, h, cur, NoDetails)
    IN  [threads |-> map, heap |-> Collect(map, h, c), current |-> c]

\* an assignment that reaches the fields of every session
SetEverySession(s, r) ==
    /\ threads' = [o \in SessionIds |-> r.threads]
    /\ heap' = [o \in SessionIds |-> r.heap]
    /\ currentThread' = [o \in SessionIds |-> r.current]

SetSession(s, r) ==
    /\ threads' = [threads EXCEPT ![s] = r.threads]
    /\ heap' = [heap EXCEPT ![s] = r.heap]
    /\ currentThread' = [currentThread EXCEPT ![s] = r.current]

(***************************************************************************)
(* Requests: connection.sendRequest / session.run                          *)
(***************************************************************************)
\* A pending request: the command, the stopped details a `threads` request
\* will be applied with, what the code awaiting it does next (then):
\* "launch" or "attach" after the `initialize` of a handshake, "restart" after
\* the `disconnect` of a restart, "" when nothing follows; and the thread a
\* `pause` or `continue` request names (threadId).
Request(cmd, sd) == [cmd |-> cmd, sd |-> sd, then |-> "", threadId |-> NoThread]
RequestThen(cmd, then) ==
    [cmd |-> cmd, sd |-> NoDetails, then |-> then, threadId |-> NoThread]
InFlight(s, cmd) == {r \in BagToSet(pending[s]) : r.cmd = cmd}
CountInFlight(s, cmd) ==
    BagCardinality([r \in InFlight(s, cmd) |-> CopiesIn(r, pending[s])])
\* p is a value of `pending`: with req sent on s, with req of s answered
SentIn(p, s, req) == [p EXCEPT ![s] = @ (+) SetToBag({req})]
AnsweredIn(p, s, req) == [p EXCEPT ![s] = @ (-) SetToBag({req})]
Sent(s, req) == SentIn(pending, s, req)
Answered(s, req) == AnsweredIn(pending, s, req)

\* The adapter sends events to a session whose connection is open, once it
\* has answered `initialize`.
Speaks(s) == life[s] = "live" /\ adapter[s]

(***************************************************************************)
(* resolveThreads = debounce(..., 100): every call re-arms the one timer   *)
(* and replaces the argument it will call with. p is what `pending`        *)
(* becomes by the rest of the calling handler.                             *)
(***************************************************************************)
\* a debounce that also calls on the leading edge of the window
resolveThreadsLeading(s, sd, p) ==
    /\ timer[s] => winTriggers[s] < MaxTriggers
    /\ timer' = [timer EXCEPT ![s] = TRUE]
    /\ timerArg' = [timerArg EXCEPT ![s] = sd]
    /\ winTriggers' = [winTriggers EXCEPT ![s] = IF timer[s] THEN @ + 1 ELSE 1]
    /\ IF timer[s]
       THEN /\ pending' = p
            /\ UNCHANGED winRequests
       ELSE /\ pending' = SentIn(p, s, Request("threads", sd))
            /\ winRequests' = [winRequests EXCEPT ![s] = 1]

\* a debounce that calls with the argument of the first call of the window
resolveThreadsFirstArgument(s, sd, p) ==
    /\ timer[s] => winTriggers[s] < MaxTriggers
    /\ timer' = [timer EXCEPT ![s] = TRUE]
    /\ timerArg' = [timerArg EXCEPT ![s] = IF timer[s] THEN @ ELSE sd]
    /\ winTriggers' = [winTriggers EXCEPT ![s] = IF timer[s] THEN @ + 1 ELSE 1]
    /\ winRequests' = [winRequests EXCEPT ![s] = IF timer[s] THEN @ ELSE 0]
    /\ pending' = p

resolveThreads(s, sd, p) ==
    /\ timer[s] => winTriggers[s] < MaxTriggers
    /\ timer' = [timer EXCEPT ![s] = TRUE]
    /\ timerArg' = [timerArg EXCEPT ![s] = sd]
    /\ winTriggers' = [winTriggers EXCEPT ![s] = IF timer[s] THEN @ + 1 ELSE 1]
    /\ winRequests' = [winRequests EXCEPT ![s] = IF timer[s] THEN @ ELSE 0]
    /\ pending' = p

\* the timer fires: the debounced function runs with the latest argument
\* and sends the `threads` request (debug-session.ts:231)
TimerFire(s) ==
    /\ timer[s]
    /\ CountInFlight(s, "threads") < MaxInFlight
    /\ timer' = [timer EXCEPT ![s] = FALSE]
    /\ timerArg' = [timerArg EXCEPT ![s] = NoDetails]
    /\ pending' = Sent(s, Request("threads", timerArg[s]))
    /\ winRequests' = [winRequests EXCEPT ![s] = @ + 1]
    /\ last' = NoLast
    /\ UNCHANGED <<effectVars, batch, historyVars>>
    /\ UNCHANGED <<managerVars, adapter, life, sessionVars, capabilities, winTriggers>>

\* the arrays a `threads` response can carry
RawThreads ==
    {q \in UNION {[1..n -> ThreadIds] : n \in 0..Cardinality(ThreadIds)} :
        \A i, j \in DOMAIN q : q[i] = q[j] => i = j}

\* the `threads` response arrives: updateThreads(response.body.threads, stoppedDetails)
ThreadsApplied(s, req, raws) ==
    /\ life[s] = "live"
    /\ req \in InFlight(s, "threads")
    /\ pending' = Answered(s, req)
    /\ SetSession(s, updateThreads(threads[s], heap[s], currentThread[s], raws, req.sd))
    /\ last' = [NoLast EXCEPT !.op = "threads", !.s = s,
                              !.hit = \E i \in 1..Len(raws) : raws[i] \in Ids(threads[s])]
    /\ UNCHANGED <<effectVars, batch>>
    /\ UNCHANGED <<managerVars, adapter, life, debounceVars, capabilities, sources>>

\* the same, recording no history
ThreadsResponse(s, req, raws) ==
    /\ ThreadsApplied(s, req, raws)
    /\ UNCHANGED historyVars

\* the `threads` request fails: the debounced function rejects, nothing is updated
ThreadsRejected(s, req) ==
    /\ life[s] # "none"
    /\ req \in InFlight(s, "threads")
    /\ pending' = Answered(s, req)
    /\ last' = NoLast
    /\ UNCHANGED <<effectVars, batch>>
    /\ UNCHANGED <<managerVars, adapter, life, sessionVars, debounceVars, capabilities>>

\* the same, recording no history
ThreadsFailed(s, req) ==
    /\ ThreadsRejected(s, req)
    /\ UNCHANGED historyVars

(***************************************************************************)
(* The session's event listeners (constructor, debug-session.ts:70-90)     *)
(***************************************************************************)
\* 'continued': allThreadsContinued is "true", "false" or "absent"
ContinuedClearsAllIfTrue(all) == all = "true"
ContinuedClearsAll(all) == all # "false"
ContinuedEvent(s, all, threadId) ==
    /\ Speaks(s)
    /\ last' = [NoLast EXCEPT
                    !.op = "continued", !.s = s,
                    !.tid = IF ContinuedClearsAll(all) THEN NoThread ELSE threadId,
                    !.hit = IF ContinuedClearsAll(all)
                            THEN StoppedIds(threads[s], heap[s]) # {}
                            ELSE threadId \in StoppedIds(threads[s], heap[s])]
    /\ SetSession(s, IF ContinuedClearsAll(all)
                     THEN clearThreads(threads[s], heap[s], currentThread[s])
                     ELSE clearThread(threads[s], heap[s], currentThread[s], threadId))
    /\ UNCHANGED <<effectVars, batch>>
    /\ UNCHANGED <<managerVars, adapter, life, debounceVars, pending, capabilities,
                   sources>>

\* the same, recording no history
OnContinued(s, all, threadId) ==
    /\ ContinuedEvent(s, all, threadId)
    /\ UNCHANGED historyVars

\* 'stopped': resolveThreads(body)
StoppedEvent(s, body) ==
    /\ Speaks(s)
    /\ resolveThreads(s, body, pending)
    /\ last' = NoLast
    /\ UNCHANGED <<effectVars, batch>>
    /\ UNCHANGED <<managerVars, adapter, life, sessionVars, capabilities>>

\* the same, recording no history
OnStopped(s, body) ==
    /\ StoppedEvent(s, body)
    /\ UNCHANGED historyVars

\* 'thread' with reason 'started': resolveThreads(undefined)
OnThreadStarted(s) ==
    /\ Speaks(s)
    /\ resolveThreads(s, NoDetails, pending)
    /\ last' = NoLast
    /\ UNCHANGED <<effectVars, batch, historyVars>>
    /\ UNCHANGED <<managerVars, adapter, life, sessionVars, capabilities>>

\* 'thread' with reason 'exited': clearThread(threadId)
ThreadExitedEvent(s, threadId) ==
    /\ Speaks(s)
    /\ SetSession(s, clearThread(threads[s], heap[s], currentThread[s], threadId))
    /\ last' = [NoLast EXCEPT !.op = "threadExited", !.s = s, !.tid = threadId,
                              !.hit = threadId \in StoppedIds(threads[s], heap[s])]
    /\ UNCHANGED <<effectVars, batch>>
    /\ UNCHANGED <<managerVars, adapter, life, debounceVars, pending, capabilities,
                   sources>>

\* the same, recording no history
OnThreadExited(s, threadId) ==
    /\ ThreadExitedEvent(s, threadId)
    /\ UNCHANGED historyVars

(***************************************************************************)
(* The same handlers, recording in owed and resumed what the adapter's     *)
(* events have announced                                                   *)
(***************************************************************************)
\* no refresh is armed or in flight: the thread map will change no more
\* unless a new event arrives
Quiescent(s) == ~timer[s] /\ InFlight(s, "threads") = {}

\* 'stopped' naming a thread: that thread is owed the state Stopped, unless
\* another one already is; not all threads are continued any more
WatchStopped(s, body) ==
    /\ StoppedEvent(s, body)
    /\ owed' = [owed EXCEPT ![s] = IF @ = NoThread THEN body.threadId ELSE @]
    /\ resumed' = [resumed EXCEPT ![s] = FALSE]
    /\ UNCHANGED <<fired, signals>>

\* 'continued': nothing is owed to a thread that continued
WatchContinued(s, all, threadId) ==
    /\ ContinuedEvent(s, all, threadId)
    /\ owed' = [owed EXCEPT ![s] = IF all # "false" \/ @ = threadId THEN NoThread ELSE @]
    /\ resumed' = [resumed EXCEPT ![s] = @ \/ all # "false"]
    /\ UNCHANGED <<fired, signals>>

\* 'thread' exited: nothing is owed to a thread that exited
WatchThreadExited(s, threadId) ==
    /\ ThreadExitedEvent(s, threadId)
    /\ owed' = [owed EXCEPT ![s] = IF @ = threadId THEN NoThread ELSE @]
    /\ UNCHANGED <<resumed, fired, signals>>

\* a `threads` response: the owed thread has got its state if it is Stopped
\* now, and is owed nothing if the response does not list it
WatchThreadsResponse(s, req, raws) ==
    /\ ThreadsApplied(s, req, raws)
    /\ owed' = [owed EXCEPT ![s] =
                   IF @ \in StoppedIds(threads'[s], heap'[s]) \/ @ \notin Ids(threads'[s])
                   THEN NoThread ELSE @]
    /\ UNCHANGED <<resumed, fired, signals>>

\* a `threads` request that fails has no response that lists the owed thread
WatchThreadsFailed(s, req) ==
    /\ ThreadsRejected(s, req)
    /\ owed' = [owed EXCEPT ![s] = NoThread]
    /\ UNCHANGED <<resumed, fired, signals>>

(***************************************************************************)
(* The same handlers, recording in signals what doSetCurrentThread does    *)
(***************************************************************************)
\* doSetCurrentThread(thread), after it has stored the thread: fireDidChange(),
\* and for a thread the call of thread.resolve(), which resolves its frames
doSetCurrentThreadSteps(thread) ==
    IF thread # NoObj THEN <<"fireDidChange", "resolve">> ELSE <<"fireDidChange">>

TraceThreadsResponse(s, req, raws) ==
    /\ ThreadsApplied(s, req, raws)
    /\ signals' = [signals EXCEPT ![s] = doSetCurrentThreadSteps(currentThread'[s])]
    /\ UNCHANGED <<owed, resumed, fired>>

TraceContinued(s, all, threadId) ==
    /\ ContinuedEvent(s, all, threadId)
    /\ signals' = [signals EXCEPT ![s] = doSetCurrentThreadSteps(currentThread'[s])]
    /\ UNCHANGED <<owed, resumed, fired>>

TraceThreadExited(s, threadId) ==
    /\ ThreadExitedEvent(s, threadId)
    /\ signals' = [signals EXCEPT ![s] = doSetCurrentThreadSteps(currentThread'[s])]
    /\ UNCHANGED <<owed, resumed, fired>>

(***************************************************************************)
(* configurationDone() and the onConfigurationDone listener                *)
(***************************************************************************)
\* configurationDone(): the request is sent (debug-session.ts:176)
ConfigurationDone(s) ==
    /\ life[s] = "live"
    /\ CountInFlight(s, "configurationDone") < MaxInFlight
    /\ pending' = Sent(s, Request("configurationDone", NoDetails))
    /\ last' = NoLast
    /\ UNCHANGED <<effectVars, batch, historyVars>>
    /\ UNCHANGED <<managerVars, adapter, life, sessionVars, debounceVars, capabilities>>

\* its response arrives: onConfigurationDoneEmitter.fire(response), whose
\* listener calls resolveThreads(undefined)
ConfigurationDoneResponse(s) ==
    /\ life[s] = "live"
    /\ Request("configurationDone", NoDetails) \in InFlight(s, "configurationDone")
    /\ resolveThreads(s, NoDetails, Answered(s, Request("configurationDone", NoDetails)))
    /\ last' = NoLast
    /\ UNCHANGED <<effectVars, batch, historyVars>>
    /\ UNCHANGED <<managerVars, adapter, life, sessionVars, capabilities>>

\* the `configurationDone` request fails: configurationDone() rejects before
\* the emitter fires
ConfigurationDoneFailed(s) ==
    /\ life[s] # "none"
    /\ Request("configurationDone", NoDetails) \in InFlight(s, "configurationDone")
    /\ pending' = Answered(s, Request("configurationDone", NoDetails))
    /\ last' = NoLast
    /\ UNCHANGED <<effectVars, batch, historyVars>>
    /\ UNCHANGED <<managerVars, adapter, life, sessionVars, debounceVars, capabilities>>

(***************************************************************************)
(* pauseAll() and continueAll() (debug-session.ts:147-173)                 *)
(***************************************************************************)
\* getThreadsForState(state): the ids of the map whose thread is in the state
getThreadsForAnyState(map, hp, state) == Ids(map)
getThreadsForState(map, hp, state) ==
    {id \in Ids(map) : ThreadState(hp[MapGet(map, id)]) = state}

\* thread.pause() and thread.continue() send the request of their thread
ThreadRequest(cmd, id) ==
    [cmd |-> cmd, sd |-> NoDetails, then |-> "", threadId |-> id]

\* the loop of pauseAll / continueAll: every thread in the state gets its
\* request at once, each inside its own try
SentAll(p, s, cmd, ids) ==
    [p EXCEPT ![s] = @ (+) SetToBag({ThreadRequest(cmd, id) : id \in ids})]

\* Promise.all(promises) of the loop's promises: resolved when none is left
startBatch(op, ids) ==
    [op |-> op, issued |-> ids, waiting |-> ids,
     state |-> IF ids = {} THEN "resolved" ELSE "running"]

\* the request of thread id has finished, well (ok) or not: the catch logs a
\* failure, so the thread's promise resolves either way
finishedUncaught(b, id, ok) ==
    [b EXCEPT !.waiting = @ \ {id},
              !.state = IF @ = "rejected" \/ ~ok THEN "rejected"
                        ELSE IF b.waiting \ {id} = {} THEN "resolved" ELSE "running"]
finished(b, id, ok) ==
    [b EXCEPT !.waiting = @ \ {id},
              !.state = IF b.waiting \ {id} = {} THEN "resolved" ELSE "running"]

\* pauseAll(), called while no pauseAll or continueAll of s is running
PauseAll(s) ==
    /\ life[s] = "live"
    /\ batch[s].state # "running"
    /\ LET ids == getThreadsForState(threads[s], heap[s], "Running")
       IN  /\ pending' = SentAll(pending, s, "pause", ids)
           /\ batch' = [batch EXCEPT ![s] = startBatch("pauseAll", ids)]
           /\ last' = [NoLast EXCEPT !.op = "pauseAll", !.s = s,
                                     !.hit = ids # Ids(threads[s])]
    /\ UNCHANGED <<managerVars, effectVars, historyVars, adapter, life, sessionVars,
                   debounceVars, capabilities>>

\* continueAll(), called while no pauseAll or continueAll of s is running
ContinueAll(s) ==
    /\ life[s] = "live"
    /\ batch[s].state # "running"
    /\ LET ids == getThreadsForState(threads[s], heap[s], "Stopped")
       IN  /\ pending' = SentAll(pending, s, "continue", ids)
           /\ batch' = [batch EXCEPT ![s] = startBatch("continueAll", ids)]
           /\ last' = [NoLast EXCEPT !.op = "continueAll", !.s = s,
                                     !.hit = ids # Ids(threads[s])]
    /\ UNCHANGED <<managerVars, effectVars, historyVars, adapter, life, sessionVars,
                   debounceVars, capabilities>>

\* a `pause` or `continue` request of the batch is answered (ok) or fails
BatchAnswer(s, req, ok) ==
    /\ IF ok THEN life[s] = "live" ELSE life[s] # "none"
    /\ req \in InFlight(s, "pause") \cup InFlight(s, "continue")
    /\ pending' = Answered(s, req)
    /\ batch' = [batch EXCEPT ![s] = finished(@, req.threadId, ok)]
    /\ last' = [NoLast EXCEPT !.op = "batchAnswer", !.s = s, !.tid = req.threadId,
                              !.hit = ~ok]
    /\ UNCHANGED <<managerVars, effectVars, historyVars, adapter, life, sessionVars,
                   debounceVars, capabilities>>

(***************************************************************************)
(* Capabilities: initialize(args) and the 'capabilities' listener          *)
(***************************************************************************)
\* Object.assign(target, source): the fields source has overwrite target's
ObjectAssign(target, source) ==
    [f \in CapFields |-> IF source[f] # Absent THEN source[f] ELSE target[f]]

\* updateCapabilities(capabilities): Object.assign(this.capabilities, capabilities)
updateCapabilitiesReplacing(old, caps) == caps
updateCapabilities(old, caps) == ObjectAssign(old, caps)

\* 'capabilities': updateCapabilities(event.body.capabilities)
OnCapabilities(s, caps) ==
    /\ Speaks(s)
    /\ capabilities' = [capabilities EXCEPT ![s] = updateCapabilities(@, caps)]
    /\ last' = [NoLast EXCEPT
                    !.op = "capabilities", !.s = s,
                    !.hit = /\ \E f \in CapFields :
                                   caps[f] = Absent /\ capabilities[s][f] # Absent
                            /\ \E f \in CapFields :
                                   /\ caps[f] # Absent
                                   /\ capabilities[s][f] \notin {Absent, caps[f]}]
    /\ UNCHANGED <<effectVars, batch, historyVars>>
    /\ UNCHANGED <<managerVars, adapter, life, sessionVars, debounceVars, pending>>

\* updateSources(event): for the reasons new and changed, the source is
\* stored under its path, if it has one, and under its sourceReference as a
\* string, if it has one that is not 0; any other reason stores nothing
updateSources(map, reason, source) ==
    IF reason \in {"new", "changed"}
    THEN LET byPath == IF source.path # ""
                       THEN [map EXCEPT ![source.path] = source] ELSE map
         IN  IF source.sourceReference # 0
             THEN [byPath EXCEPT ![NumberToString(source.sourceReference)] = source]
             ELSE byPath
    ELSE map

\* 'loadedSource': updateSources(event)
OnLoadedSource(s, reason, source) ==
    /\ Speaks(s)
    /\ sources' = [sources EXCEPT ![s] = updateSources(@, reason, source)]
    /\ last' = [NoLast EXCEPT !.op = "loadedSource", !.s = s,
                              !.hit = updateSources(sources[s], reason, source) # sources[s]]
    /\ UNCHANGED <<effectVars, batch, historyVars>>
    /\ UNCHANGED <<managerVars, adapter, life, threads, heap, currentThread,
                   debounceVars, pending, capabilities>>

\* initialize(args): the `initialize` request is sent (debug-session.ts:142)
Initialize(s) ==
    /\ life[s] = "live"
    /\ CountInFlight(s, "initialize") < MaxInFlight
    /\ pending' = Sent(s, Request("initialize", NoDetails))
    /\ last' = NoLast
    /\ UNCHANGED <<effectVars, batch, historyVars>>
    /\ UNCHANGED <<managerVars, adapter, life, sessionVars, debounceVars, capabilities>>

\* Object.assign(session.configuration, { __restart: false }) of attach(),
\* Object.assign(session.configuration, { __restart: false, noDebug: false })
\* of launch(); m are the fields before, then is "attach" or "launch"
assignMarks(m, then) ==
    IF then = "launch" THEN [noDebug |-> "false", restart |-> "false"]
    ELSE IF then = "attach" THEN [m EXCEPT !.restart = "false"]
    ELSE m

\* its response arrives: this.capabilities = response.body || {} (a response
\* without a body is the body NoCapabilities); then attach() or launch(), if
\* one of them awaits it, sends its request (debug-session-manager.ts:112-114,
\* 124-126)
InitializeResponse(s, req, body) ==
    /\ life[s] = "live"
    /\ req \in InFlight(s, "initialize")
    /\ req.then # "" => CountInFlight(s, req.then) < MaxInFlight
    /\ pending' = IF req.then = "" THEN Answered(s, req)
                  ELSE SentIn(Answered(s, req), s, RequestThen(req.then, ""))
    /\ capabilities' = [capabilities EXCEPT ![s] = body]
    /\ adapter' = [adapter EXCEPT ![s] = TRUE]
    /\ last' = [NoLast EXCEPT
                    !.op = "initialize", !.s = s,
                    !.hit = \E f \in CapFields :
                                body[f] = Absent /\ capabilities[s][f] # Absent]
    /\ marks' = [marks EXCEPT ![s] = assignMarks(@, req.then)]
    /\ UNCHANGED <<calls, errorsShown, batch, historyVars>>
    /\ UNCHANGED <<managerVars, life, sessionVars, debounceVars>>

\* the `initialize` request fails: initialize() rejects, nothing is stored;
\* the attach() or launch() awaiting it rejects with it, outside its try
InitializeFailed(s, req) ==
    /\ life[s] # "none"
    /\ req \in InFlight(s, "initialize")
    /\ pending' = Answered(s, req)
    /\ adapter' = [adapter EXCEPT ![s] = @ \/ life[s] = "live"]
    /\ last' = NoLast
    /\ UNCHANGED <<effectVars, batch, historyVars>>
    /\ UNCHANGED <<managerVars, life, sessionVars, debounceVars, capabilities>>

(***************************************************************************)
(* DebugSessionManager                                                     *)
(***************************************************************************)
Registered == {sessions[i] : i \in 1..Len(sessions)}
Requests == {"launch", "attach", "bogus"}

\* DebugSession.state: the state of the current thread, Inactive without one
sessionState(hp, cur) == IF cur # NoObj THEN ThreadState(hp[cur]) ELSE "Inactive"

\* find(sessionId): the session registered under the id (named by its id),
\* NoSession for undefined
find(sess, sessionId) ==
    IF sessionId \in {sess[i] : i \in 1..Len(sess)} THEN sessionId ELSE NoSession

\* currentSession: the session registered under the active id
currentSessionFirst(sess, active) == IF sess # <<>> THEN sess[1] ELSE NoSession
currentSession(sess, active) ==
    IF active # NoSession THEN find(sess, active) ELSE NoSession

\* DebugSessionManager.state: the state of the current session, Inactive
\* without one
managerState(sess, active, hp, cur) ==
    IF currentSession(sess, active) # NoSession
    THEN sessionState(hp[currentSession(sess, active)],
                      cur[currentSession(sess, active)])
    ELSE "Inactive"

\* setActiveDebugSession(sessionId): the new activeDebugSessionId
setActiveDebugSessionUnchecked(sess, active, sessionId) == sessionId
setActiveDebugSession(sess, active, sessionId) ==
    IF sessionId # NoSession /\ sessionId \notin {sess[i] : i \in 1..Len(sess)}
    THEN active
    ELSE sessionId

\* the notifications setActiveDebugSession(sessionId) fires: one when the
\* active id changes, with the session find(activeDebugSessionId) returned
\* before the change and currentSession after it
setActiveDebugSessionFires(sess, active, sessionId) ==
    IF setActiveDebugSession(sess, active, sessionId) = active THEN <<>>
    ELSE <<[old |-> find(sess, active), new |-> currentSession(sess, sessionId)]>>

\* the notifications remove(sessionId) fires: those of the
\* setActiveDebugSession it calls after this.sessions.delete(sessionId)
removeFires(sess, active, sessionId) ==
    LET rest == SelectSeq(sess, LAMBDA x : x # sessionId)
    IN  IF active # NoSession /\ active = sessionId
        THEN setActiveDebugSessionFires(rest, active,
                                        IF Len(rest) # 0 THEN rest[1] ELSE NoSession)
        ELSE <<>>

\* remove(sessionId): the registry and the active id afterwards
removeKeepingActive(sess, active, sessionId) ==
    [sessions |-> SelectSeq(sess, LAMBDA x : x # sessionId), active |-> active]
remove(sess, active, sessionId) ==
    LET rest == SelectSeq(sess, LAMBDA x : x # sessionId)
    IN  [sessions |-> rest,
         active |-> IF active # NoSession /\ active = sessionId
                    THEN IF Len(rest) # 0
                         THEN setActiveDebugSession(rest, active, rest[1])
                         ELSE setActiveDebugSession(rest, active, NoSession)
                    ELSE active]

\* the calls of doDestroy, in the order it makes them: debugService.stop,
\* session.dispose, this.remove, onDidDestroyDebugSessionEmitter.fire
DestroyCalls == <<"stop", "dispose", "remove", "destroyed">>

\* doDestroy(session): debugService.stop, session.dispose(), remove, and the
\* destroyed notification
doDestroyWithoutDispose(s) ==
    /\ UNCHANGED life
    /\ sessions' = remove(sessions, activeDebugSessionId, s).sessions
    /\ activeDebugSessionId' = remove(sessions, activeDebugSessionId, s).active
    /\ calls' = [calls EXCEPT ![s] = @ \o DestroyCalls]
doDestroy(s) ==
    /\ life' = [life EXCEPT ![s] = "disposed"]
    /\ sessions' = remove(sessions, activeDebugSessionId, s).sessions
    /\ activeDebugSessionId' = remove(sessions, activeDebugSessionId, s).active
    /\ calls' = [calls EXCEPT ![s] = @ \o DestroyCalls]

\* destroy(sessionId) with an id: doDestroy if the id is registered
destroyUnchecked(s) == doDestroy(s)
destroy(s) ==
    IF s \in Registered THEN doDestroy(s)
    ELSE UNCHANGED <<life, sessions, activeDebugSessionId, calls>>

\* doDestroy(session) on the manager's fields m: the registry, the active
\* id, the sessions' lives and the calls made
doDestroyIn(m, s) ==
    [sessions |-> remove(m.sessions, m.active, s).sessions,
     active |-> remove(m.sessions, m.active, s).active,
     life |-> [m.life EXCEPT ![s] = "disposed"],
     calls |-> [m.calls EXCEPT ![s] = @ \o DestroyCalls]]

\* this.sessions.forEach(session => this.doDestroy(session)): Map.forEach
\* visits, in insertion order, every entry that is in the map when its turn
\* comes; todo are the entries not visited yet
RECURSIVE destroyEachByIndex(_, _)
RECURSIVE destroyEach(_, _)
\* a loop by index over the list doDestroy shrinks: every other entry is missed
destroyEachByIndex(todo, m) ==
    IF todo = <<>> THEN m
    ELSE destroyEachByIndex(IF Len(todo) > 1 THEN Tail(Tail(todo)) ELSE <<>>,
                            doDestroyIn(m, Head(todo)))
destroyEach(todo, m) ==
    IF todo = <<>> THEN m
    ELSE destroyEach(Tail(todo),
                     IF find(m.sessions, Head(todo)) # NoSession
                     THEN doDestroyIn(m, Head(todo)) ELSE m)

\* the switch of launchOrAttach on configuration.request: which of attach()
\* and launch() runs, "" when it throws `Unsupported request`
launchOrAttachAny(request) == IF request = "attach" THEN "attach" ELSE "launch"
launchOrAttach(request) ==
    IF request = "attach" THEN "attach"
    ELSE IF request = "launch" THEN "launch"
    ELSE ""

\* a handshake that sends `launch` or `attach` without awaiting initialize
StartHandshakeNoAwait(s, request, p) ==
    IF launchOrAttach(request) = "" THEN p
    ELSE SentIn(SentIn(p, s, RequestThen("initialize", "")),
                s, RequestThen(launchOrAttach(request), ""))

\* launchOrAttach(session) up to its first await: attach() or launch() calls
\* session.initialize. p is `pending` as the caller leaves it.
StartHandshake(s, request, p) ==
    IF launchOrAttach(request) = "" THEN p
    ELSE SentIn(p, s, RequestThen("initialize", launchOrAttach(request)))

\* how the promise create() returns settles: the session is returned;
\* launchOrAttach(session) is called and not awaited
createSettles(request) == "resolved"

\* create(sessionId, debugConfiguration), with an id not used before; the
\* configuration has the field request and has noDebug or not
Create(s, request, noDebug) ==
    /\ life[s] = "none"
    /\ life' = [life EXCEPT ![s] = "live"]
    /\ sessions' = Append(sessions, s)
    /\ configuration' = [configuration EXCEPT ![s] = request]
    /\ createResult' = [createResult EXCEPT ![s] = createSettles(request)]
    /\ pending' = StartHandshake(s, request, pending)
    /\ last' = [NoLast EXCEPT !.op = "create", !.s = s]
    /\ marks' = [marks EXCEPT ![s] = [NoMarks EXCEPT !.noDebug = noDebug]]
    /\ UNCHANGED <<calls, errorsShown, batch, historyVars>>
    /\ UNCHANGED <<activeDebugSessionId, applying, adapter, sessionVars, debounceVars,
                   capabilities>>

\* setActiveDebugSession(sessionId), called by the user interface
SetActiveCalled(sessionId) ==
    /\ activeDebugSessionId' =
           setActiveDebugSession(sessions, activeDebugSessionId, sessionId)
    /\ last' = [NoLast EXCEPT !.op = "setActive", !.s = sessionId,
                              !.hit = sessionId \in Registered]
    /\ UNCHANGED <<effectVars, batch>>
    /\ UNCHANGED <<sessions, configuration, createResult, applying, adapter, life,
                   sessionVars, debounceVars, pending, capabilities>>

\* the same, recording no history
SetActive(sessionId) ==
    /\ SetActiveCalled(sessionId)
    /\ UNCHANGED historyVars

\* remove(sessionId), called with the id of any session
RemoveCalled(s) ==
    /\ sessions' = remove(sessions, activeDebugSessionId, s).sessions
    /\ activeDebugSessionId' = remove(sessions, activeDebugSessionId, s).active
    /\ last' = [NoLast EXCEPT !.op = "remove", !.s = s,
                              !.hit = activeDebugSessionId = s]
    /\ UNCHANGED <<effectVars, batch>>
    /\ UNCHANGED <<configuration, createResult, applying, adapter, life,
                   sessionVars, debounceVars, pending, capabilities>>

\* the same, recording no history
Remove(s) ==
    /\ RemoveCalled(s)
    /\ UNCHANGED historyVars

\* destroy(sessionId), called by the user interface with the id of a session
\* that was created, registered or not any more
DestroyCalled(s) ==
    /\ life[s] # "none"
    /\ destroy(s)
    /\ last' = [NoLast EXCEPT !.op = "destroy", !.s = s,
                              !.hit = activeDebugSessionId = s]
    /\ UNCHANGED <<marks, errorsShown, batch>>
    /\ UNCHANGED <<configuration, createResult, applying, adapter, sessionVars,
                   debounceVars, pending, capabilities>>

\* the same, recording no history
Destroy(s) ==
    /\ DestroyCalled(s)
    /\ UNCHANGED historyVars

(***************************************************************************)
(* The same calls, recording in fired the active-session-changed           *)
(* notifications they fire                                                 *)
(***************************************************************************)
WatchSetActive(sessionId) ==
    /\ SetActiveCalled(sessionId)
    /\ fired' = setActiveDebugSessionFires(sessions, activeDebugSessionId, sessionId)
    /\ UNCHANGED <<owed, resumed, signals>>

WatchRemove(s) ==
    /\ RemoveCalled(s)
    /\ fired' = removeFires(sessions, activeDebugSessionId, s)
    /\ UNCHANGED <<owed, resumed, signals>>

\* destroy(sessionId) fires what the remove of its doDestroy fires
WatchDestroy(s) ==
    /\ DestroyCalled(s)
    /\ fired' = IF s \in Registered
                THEN removeFires(sessions, activeDebugSessionId, s)
                ELSE <<>>
    /\ UNCHANGED <<owed, resumed, signals>>

\* destroy() without an id, called by the user interface
DestroyAll ==
    /\ LET m == destroyEach(sessions, [sessions |-> sessions,
                                       active |-> activeDebugSessionId,
                                       life |-> life, calls |-> calls])
       IN  /\ sessions' = m.sessions
           /\ activeDebugSessionId' = m.active
           /\ life' = m.life
           /\ calls' = m.calls
    /\ last' = [NoLast EXCEPT !.op = "destroyAll",
                              !.hit = Len(sessions) = 2 /\ activeDebugSessionId # NoSession]
    /\ UNCHANGED <<marks, errorsShown, batch, historyVars>>
    /\ UNCHANGED <<configuration, createResult, applying, adapter, sessionVars,
                   debounceVars, pending, capabilities>>

\* 'exited': destroy(session.sessionId)
OnExited(s) ==
    /\ Speaks(s)
    /\ destroy(s)
    /\ last' = [NoLast EXCEPT !.op = "exited", !.s = s,
                              !.hit = activeDebugSessionId = s]
    /\ UNCHANGED <<marks, errorsShown, batch, historyVars>>
    /\ UNCHANGED <<configuration, createResult, applying, adapter, sessionVars,
                   debounceVars, pending, capabilities>>

\* the `launch` or `attach` request succeeds: the handshake is complete
LaunchResponse(s, req) ==
    /\ life[s] = "live"
    /\ req \in InFlight(s, "launch") \cup InFlight(s, "attach")
    /\ pending' = Answered(s, req)
    /\ last' = [NoLast EXCEPT !.op = "launched", !.s = s, !.out = "resolved"]
    /\ UNCHANGED <<effectVars, batch, historyVars>>
    /\ UNCHANGED <<managerVars, adapter, life, sessionVars, debounceVars, capabilities>>

\* onSessionInitializationFailed(session, cause): destroy(session.sessionId),
\* then notification.showMessage of type Error
onSessionInitializationFailedQuietly(s) ==
    /\ destroy(s)
    /\ UNCHANGED errorsShown
onSessionInitializationFailed(s) ==
    /\ destroy(s)
    /\ errorsShown' = [errorsShown EXCEPT ![s] = @ + 1]

\* it fails: the catch of attach() or launch() calls
\* onSessionInitializationFailed and throws the cause on
LaunchFailed(s, req) ==
    /\ life[s] # "none"
    /\ req \in InFlight(s, "launch") \cup InFlight(s, "attach")
    /\ pending' = Answered(s, req)
    /\ onSessionInitializationFailed(s)
    /\ last' = [NoLast EXCEPT !.op = "launchFailed", !.s = s,
                              !.hit = activeDebugSessionId = s, !.out = "rejected"]
    /\ UNCHANGED <<marks, batch, historyVars>>
    /\ UNCHANGED <<configuration, createResult, applying, adapter, sessionVars,
                   debounceVars, capabilities>>

\* onSessionInitialized up to its first await: applySessionBreakpoints starts
onSessionInitializedNoAwait(s) ==
    /\ applying' = [applying EXCEPT ![s] = @ + 1]
    /\ pending' = Sent(s, Request("configurationDone", NoDetails))
onSessionInitialized(s) ==
    /\ applying' = [applying EXCEPT ![s] = @ + 1]
    /\ UNCHANGED pending

\* 'initialized': onSessionInitialized(session)
OnInitialized(s) ==
    /\ Speaks(s)
    /\ applying[s] + CountInFlight(s, "configurationDone") < MaxInFlight
    /\ onSessionInitialized(s)
    /\ last' = [NoLast EXCEPT !.op = "initialized", !.s = s]
    /\ UNCHANGED <<effectVars, batch, historyVars>>
    /\ UNCHANGED <<sessions, activeDebugSessionId, configuration, createResult, adapter,
                   life, sessionVars, debounceVars, capabilities>>

\* applySessionBreakpoints resolves: session.configurationDone() sends its request
ApplyDone(s) ==
    /\ applying[s] > 0
    /\ applying' = [applying EXCEPT ![s] = @ - 1]
    /\ pending' = Sent(s, Request("configurationDone", NoDetails))
    /\ last' = [NoLast EXCEPT !.op = "applied", !.s = s]
    /\ UNCHANGED <<effectVars, batch, historyVars>>
    /\ UNCHANGED <<sessions, activeDebugSessionId, configuration, createResult, adapter,
                   life, sessionVars, debounceVars, capabilities>>

\* applySessionBreakpoints rejects: onSessionInitialized rejects with it
ApplyFailed(s) ==
    /\ applying[s] > 0
    /\ applying' = [applying EXCEPT ![s] = @ - 1]
    /\ last' = NoLast
    /\ UNCHANGED <<effectVars, batch, historyVars>>
    /\ UNCHANGED <<sessions, activeDebugSessionId, configuration, createResult, adapter,
                   life, sessionVars, debounceVars, pending, capabilities>>

\* disconnect(session, event): what follows the `disconnect` request it
\* sends; restart is the truth value of event.body && event.body.restart
disconnectPlainly(restart) == ""
disconnect(restart) == IF restart THEN "restart" ELSE ""

\* 'terminated': disconnect(session, event), a restart if the body asks for one
OnTerminated(s, restart) ==
    /\ Speaks(s)
    /\ CountInFlight(s, "disconnect") < MaxInFlight
    /\ pending' = Sent(s, RequestThen("disconnect", disconnect(restart)))
    /\ last' = [NoLast EXCEPT !.op = "terminated", !.s = s, !.hit = restart]
    /\ UNCHANGED <<effectVars, batch, historyVars>>
    /\ UNCHANGED <<managerVars, adapter, life, sessionVars, debounceVars, capabilities>>

\* the `disconnect` request succeeds: restart() goes on to launchOrAttach
DisconnectResponse(s, req) ==
    /\ life[s] = "live"
    /\ req \in InFlight(s, "disconnect")
    /\ req.then = "restart" /\ launchOrAttach(configuration[s]) # ""
           => CountInFlight(s, "initialize") < MaxInFlight
    /\ pending' = IF req.then = "restart"
                  THEN StartHandshake(s, configuration[s], Answered(s, req))
                  ELSE Answered(s, req)
    /\ last' = [NoLast EXCEPT !.op = "disconnected", !.s = s, !.hit = req.then = "restart"]
    /\ UNCHANGED <<effectVars, batch, historyVars>>
    /\ UNCHANGED <<managerVars, adapter, life, sessionVars, debounceVars, capabilities>>

\* it fails: disconnect() rejects, and restart() with it
DisconnectFailed(s, req) ==
    /\ life[s] # "none"
    /\ req \in InFlight(s, "disconnect")
    /\ pending' = Answered(s, req)
    /\ last' = NoLast
    /\ UNCHANGED <<effectVars, batch, historyVars>>
    /\ UNCHANGED <<managerVars, adapter, life, sessionVars, debounceVars, capabilities>>

(***************************************************************************)
(* Initial states and specifications                                      *)
(***************************************************************************)
\* the variables of the sessions before any session is constructed
InitFields ==
    /\ sessions = <<>>
    /\ activeDebugSessionId = NoSession
    /\ configuration = [s \in SessionIds |-> ""]
    /\ createResult = [s \in SessionIds |-> "none"]
    /\ applying = [s \in SessionIds |-> 0]
    /\ threads = [s \in SessionIds |-> <<>>]
    /\ heap = [s \in SessionIds |-> [o \in Objs |-> FreeThread]]
    /\ currentThread = [s \in SessionIds |-> NoObj]
    /\ timer = [s \in SessionIds |-> FALSE]
    /\ timerArg = [s \in SessionIds |-> NoDetails]
    /\ pending = [s \in SessionIds |-> EmptyBag]
    /\ capabilities = [s \in SessionIds |-> NoCapabilities]
    /\ sources = [s \in SessionIds |-> NoSources]
    /\ winTriggers = [s \in SessionIds |-> 0]
    /\ winRequests = [s \in SessionIds |-> 0]
    /\ marks = [s \in SessionIds |-> NoMarks]
    /\ calls = [s \in SessionIds |-> <<>>]
    /\ errorsShown = [s \in SessionIds |-> 0]
    /\ batch = [s \in SessionIds |-> NoBatch]
    /\ owed = [s \in SessionIds |-> NoThread]
    /\ resumed = [s \in SessionIds |-> FALSE]
    /\ fired = <<>>
    /\ signals = [s \in SessionIds |-> <<>>]
    /\ last = NoLast

\* one DebugSession, "s1", just constructed, whose adapter speaks
InitSession ==
    /\ InitFields
    /\ life = [s \in SessionIds |-> IF s = "s1" THEN "live" ELSE "none"]
    /\ adapter = [s \in SessionIds |-> s = "s1"]

\* the DebugSessionManager just constructed: no session
Init ==
    /\ InitFields
    /\ life = [s \in SessionIds |-> "none"]
    /\ adapter = [s \in SessionIds |-> FALSE]

NextThreads ==
    \E s \in SessionIds :
        \/ \E all \in {"true", "false", "absent"}, t \in ThreadIds : OnContinued(s, all, t)
        \/ \E body \in StoppedDetails : OnStopped(s, body)
        \/ OnThreadStarted(s)
        \/ \E t \in ThreadIds : OnThreadExited(s, t)
        \/ TimerFire(s)
        \/ \E req \in InFlight(s, "threads") :
              \/ \E raws \in RawThreads : ThreadsResponse(s, req, raws)
              \/ ThreadsFailed(s, req)
        \/ ConfigurationDone(s)
        \/ ConfigurationDoneResponse(s)
        \/ ConfigurationDoneFailed(s)

SpecThreads == InitSession /\ [][NextThreads]_vars

\* the session's threads, with the history of its events recorded
NextRaces ==
    \E s \in SessionIds :
        \/ \E all \in {"true", "false"}, t \in ThreadIds : WatchContinued(s, all, t)
        \/ \E body \in StoppedDetails : WatchStopped(s, body)
        \/ OnThreadStarted(s)
        \/ \E t \in ThreadIds : WatchThreadExited(s, t)
        \/ TimerFire(s)
        \/ \E req \in InFlight(s, "threads") :
              \/ \E raws \in RawThreads : WatchThreadsResponse(s, req, raws)
              \/ WatchThreadsFailed(s, req)

SpecRaces == InitSession /\ [][NextRaces]_vars

\* the session's threads, with the steps of doSetCurrentThread recorded
NextSignals ==
    \E s \in SessionIds :
        \/ \E t \in ThreadIds :
              OnStopped(s, [threadId |-> t, preserveFocusHint |-> FALSE])
        \/ TimerFire(s)
        \/ \E req \in InFlight(s, "threads"), raws \in RawThreads :
              TraceThreadsResponse(s, req, raws)
        \/ \E all \in {"true", "false"}, t \in ThreadIds : TraceContinued(s, all, t)
        \/ \E t \in ThreadIds : TraceThreadExited(s, t)

SpecSignals == InitSession /\ [][NextSignals]_vars

\* the session's capabilities, driven by initialize and 'capabilities' events
NextCaps ==
    \E s \in SessionIds :
        \/ \E caps \in Capabilities : OnCapabilities(s, caps)
        \/ Initialize(s)
        \/ \E req \in InFlight(s, "initialize"), body \in Capabilities :
              InitializeResponse(s, req, body)
        \/ \E req \in InFlight(s, "initialize") : InitializeFailed(s, req)

SpecCaps == InitSession /\ [][NextCaps]_vars

\* the session's threads stop and continue, and the user pauses or continues
\* all of them
NextBatch ==
    \E s \in SessionIds :
        \/ \E t \in ThreadIds :
              OnStopped(s, [threadId |-> t, preserveFocusHint |-> FALSE])
        \/ OnContinued(s, "true", 0)
        \/ TimerFire(s)
        \/ \E req \in InFlight(s, "threads"), raws \in RawThreads :
              ThreadsResponse(s, req, raws)
        \/ PauseAll(s)
        \/ ContinueAll(s)
        \/ \E req \in InFlight(s, "pause") \cup InFlight(s, "continue"), ok \in BOOLEAN :
              BatchAnswer(s, req, ok)

SpecBatch == InitSession /\ [][NextBatch]_vars

\* the answers to the requests of a handshake
HandshakeAnswers(s) ==
    \/ \E req \in InFlight(s, "initialize") :
          \/ InitializeResponse(s, req, NoCapabilities)
          \/ InitializeFailed(s, req)
    \/ \E req \in InFlight(s, "launch") \cup InFlight(s, "attach") :
          \/ LaunchResponse(s, req)
          \/ LaunchFailed(s, req)

\* the manager's registry: sessions are created, handshaken, made active and
\* destroyed
NextRegistry ==
    \/ \E s \in SessionIds, request \in Requests : Create(s, request, "absent")
    \/ \E sessionId \in SessionIds \cup {NoSession} : SetActive(sessionId)
    \/ \E s \in SessionIds :
          \/ Remove(s)
          \/ Destroy(s)
          \/ OnExited(s)
          \/ HandshakeAnswers(s)

SpecRegistry == Init /\ [][NextRegistry]_vars

\* the registry, whose sessions are destroyed one by one or all at once
NextDestroyAll ==
    \/ \E s \in SessionIds, request \in {"launch", "bogus"} : Create(s, request, "absent")
    \/ \E sessionId \in SessionIds \cup {NoSession} : SetActive(sessionId)
    \/ DestroyAll
    \/ \E s \in SessionIds :
          \/ Destroy(s)
          \/ HandshakeAnswers(s)

SpecDestroyAll == Init /\ [][NextDestroyAll]_vars

\* the registry, with the notifications of its calls recorded
NextActive ==
    \/ \E s \in SessionIds : Create(s, "launch", "absent")
    \/ \E sessionId \in SessionIds \cup {NoSession} : WatchSetActive(sessionId)
    \/ \E s \in SessionIds :
          \/ WatchRemove(s)
          \/ WatchDestroy(s)

SpecActive == Init /\ [][NextActive]_vars

\* the manager with one session, "s1", from its creation to its destruction
NextHandshake ==
    \/ \E request \in Requests : Create("s1", request, "absent")
    \/ \E sessionId \in {"s1", NoSession} : SetActive(sessionId)
    \/ Destroy("s1")
    \/ OnExited("s1")
    \/ HandshakeAnswers("s1")
    \/ OnInitialized("s1")
    \/ ApplyDone("s1")
    \/ ApplyFailed("s1")
    \/ \E restart \in BOOLEAN : OnTerminated("s1", restart)
    \/ \E req \in InFlight("s1", "disconnect") :
          \/ DisconnectResponse("s1", req)
          \/ DisconnectFailed("s1", req)
    \/ ConfigurationDoneResponse("s1")
    \/ ConfigurationDoneFailed("s1")
    \/ TimerFire("s1")
    \/ \E req \in InFlight("s1", "threads") :
          \/ ThreadsResponse("s1", req, <<>>)
          \/ ThreadsFailed("s1", req)

SpecHandshake == Init /\ [][NextHandshake]_vars

\* the manager with a session "s1" whose threads stop and continue and a
\* session "s2" whose adapter never speaks
NextState ==
    \/ Create("s1", "launch", "absent")
    \/ Create("s2", "bogus", "absent")
    \/ \E sessionId \in SessionIds \cup {NoSession} : SetActive(sessionId)
    \/ \E req \in InFlight("s1", "initialize") :
          InitializeResponse("s1", req, NoCapabilities)
    \/ \E t \in ThreadIds :
          OnStopped("s1", [threadId |-> t, preserveFocusHint |-> FALSE])
    \/ OnContinued("s1", "true", 0)
    \/ TimerFire("s1")
    \/ \E req \in InFlight("s1", "threads"), raws \in RawThreads :
          ThreadsResponse("s1", req, raws)
    \/ \E s \in SessionIds : Destroy(s)

SpecState == Init /\ [][NextState]_vars

\* two sessions side by side: each is created and initialized, has a thread
\* stop (while no refresh of its threads is scheduled) and continue, receives
\* capabilities and loaded sources, and is destroyed through the user
\* interface or by its `exited` event
NextSessions ==
    \E s \in SessionIds :
        \/ Create(s, "launch", "absent")
        \/ \E req \in InFlight(s, "initialize") :
              InitializeResponse(s, req, [a |-> 1, b |-> Absent])
        \/ ~timer[s] /\ OnStopped(s, [threadId |-> 1, preserveFocusHint |-> FALSE])
        \/ TimerFire(s)
        \/ \E req \in InFlight(s, "threads") : ThreadsResponse(s, req, <<1>>)
        \/ OnContinued(s, "absent", 1)
        \/ OnCapabilities(s, [a |-> Absent, b |-> 2])
        \/ OnLoadedSource(s, "new", [path |-> "a", sourceReference |-> 1])
        \/ Destroy(s)
        \/ OnExited(s)

SpecSessions == Init /\ [][NextSessions]_vars

\* one session, "s1", whose configuration may have noDebug: its handshake
\* and its restarts
NextRestart ==
    \/ \E request \in {"launch", "attach"}, noDebug \in {"absent", "true"} :
          Create("s1", request, noDebug)
    \/ HandshakeAnswers("s1")
    \/ \E restart \in BOOLEAN : OnTerminated("s1", restart)
    \/ \E req \in InFlight("s1", "disconnect") :
          \/ DisconnectResponse("s1", req)
          \/ DisconnectFailed("s1", req)
    \/ OnExited("s1")

SpecRestart == Init /\ [][NextRestart]_vars

\* one session, "s1", destroyed at any point of its handshake and of its
\* threads refresh
NextDispose ==
    \/ Create("s1", "launch", "absent")
    \/ HandshakeAnswers("s1")
    \/ OnInitialized("s1")
    \/ ApplyDone("s1")
    \/ OnTerminated("s1", FALSE)
    \/ \E req \in InFlight("s1", "disconnect") :
          \/ DisconnectResponse("s1", req)
          \/ DisconnectFailed("s1", req)
    \/ ConfigurationDoneResponse("s1")
    \/ ConfigurationDoneFailed("s1")
    \/ TimerFire("s1")
    \/ \E req \in InFlight("s1", "threads") :
          \/ ThreadsResponse("s1", req, <<>>)
          \/ ThreadsFailed("s1", req)
    \/ Destroy("s1")
    \/ OnExited("s1")

\* a request of a disposed session is rejected, and the code awaiting it runs
Rejected(s) ==
    /\ life[s] = "disposed"
    /\ \/ \E req \in InFlight(s, "initialize") : InitializeFailed(s, req)
       \/ \E req \in InFlight(s, "launch") \cup InFlight(s, "attach") : LaunchFailed(s, req)
       \/ \E req \in InFlight(s, "disconnect") : DisconnectFailed(s, req)
       \/ \E req \in InFlight(s, "threads") : ThreadsFailed(s, req)
       \/ ConfigurationDoneFailed(s)

\* the event loop runs the rejections of a disposed connection
SpecDispose == Init /\ [][NextDispose]_vars /\ WF_vars(Rejected("s1"))

(***************************************************************************)
(* Properties of the session's threads (SpecThreads)                       *)
(***************************************************************************)
Details(s, hp, thread) == hp[s][thread].stoppedDetails

\* C1: in every reachable state the current thread of a session is absent or
\* a thread whose state is Stopped (there is one _currentThread field, so at
\* most one current thread).
CurrentThreadIsStopped ==
    \A s \in SessionIds :
        \/ currentThread[s] = NoObj
        \/ ThreadState(heap[s][currentThread[s]]) = "Stopped"

\* C1 witness: after a refresh a session with two threads has a current
\* thread, which is Stopped and in the map.
CurrentThreadPresent ==
    \E s \in SessionIds :
        /\ currentThread[s] \in MapObjs(threads[s])
        /\ Len(threads[s]) = 2
        /\ ThreadState(heap[s][currentThread[s]]) = "Stopped"

\* C2: the N >= 1 triggers of one debounce window produce exactly one
\* `threads` request: none while the window is open (the timer is armed),
\* one once it has closed.
OneRequestPerWindow ==
    \A s \in SessionIds :
        winTriggers[s] >= 1 => winRequests[s] = IF timer[s] THEN 0 ELSE 1

\* C2 witness: a window of several triggers has closed with its one request.
SeveralTriggersOneRequest ==
    \E s \in SessionIds : winTriggers[s] >= 2 /\ ~timer[s] /\ winRequests[s] = 1

\* C3: a refresh keeps, under every id that was in the map and is in the
\* response, the object that was there, and stores under every other id an
\* object that was not in use before.
RefreshKeepsIdentity ==
    [][\A s \in SessionIds :
          (last'.op = "threads" /\ last'.s = s) =>
              \A id \in Ids(threads'[s]) :
                  IF id \in Ids(threads[s])
                  THEN MapGet(threads'[s], id) = MapGet(threads[s], id)
                  ELSE MapGet(threads'[s], id)
                           \notin MapObjs(threads[s]) \cup {currentThread[s]}]_vars

\* C3 witness: a refresh has run whose response named an id of the old map.
RefreshKeptAThread ==
    last.op = "threads" /\ last.hit /\ threads[last.s] # <<>>

\* C4: `continued` with allThreadsContinued false drops the stopped details of
\* the named thread and of no other; with allThreadsContinued true or absent
\* it drops those of all threads.
ContinuedClearsAsNamed ==
    [][\A s \in SessionIds :
          (last'.op = "continued" /\ last'.s = s) =>
          \A t \in ThreadIds :
          /\ OnContinued(s, "false", t) =>
                /\ threads'[s] = threads[s]
                /\ \A id \in Ids(threads[s]) :
                      Details(s, heap', MapGet(threads[s], id)) =
                          IF id = t THEN NoDetails
                          ELSE Details(s, heap, MapGet(threads[s], id))
          /\ \A all \in {"true", "absent"} :
                OnContinued(s, all, t) =>
                    /\ threads'[s] = threads[s]
                    /\ \A id \in Ids(threads[s]) :
                          Details(s, heap', MapGet(threads[s], id)) = NoDetails]_vars

\* C4 witness: `continued` with allThreadsContinued false has cleared its
\* thread, which was Stopped, in a session with another thread.
ContinuedClearedOneThread ==
    /\ last.op = "continued" /\ last.tid # NoThread /\ last.hit
    /\ Len(threads[last.s]) = 2
    /\ last.tid \notin StoppedIds(threads[last.s], heap[last.s])

\* C17: a trigger of the refresh leaves the armed timer with its own payload
\* and leaves every `threads` request in flight as it is; the timer, when
\* it fires, sends one `threads` request carrying the payload of the latest
\* trigger; and a `threads` response is applied with the payload its request
\* was sent with.
RefreshUsesLatestPayload ==
    [][\A s \in SessionIds :
          /\ (timer'[s] /\ (~timer[s] \/ winTriggers'[s] # winTriggers[s])) =>
                /\ \/ \E body \in StoppedDetails :
                          OnStopped(s, body) /\ timerArg'[s] = body
                   \/ /\ OnThreadStarted(s) \/ ConfigurationDoneResponse(s)
                      /\ timerArg'[s] = NoDetails
                /\ \A r \in InFlight(s, "threads") :
                      CopiesIn(r, pending'[s]) = CopiesIn(r, pending[s])
          /\ (timer[s] /\ ~timer'[s]) =>
                pending'[s] = pending[s] (+) SetToBag({Request("threads", timerArg[s])})
          /\ (last'.op = "threads" /\ last'.s = s) =>
                \E req \in InFlight(s, "threads"), raws \in RawThreads :
                    /\ pending'[s] = pending[s] (-) SetToBag({req})
                    /\ LET r == updateThreads(threads[s], heap[s], currentThread[s],
                                              raws, req.sd)
                       IN  /\ threads'[s] = r.threads
                           /\ heap'[s] = r.heap
                           /\ currentThread'[s] = r.current]_vars

\* C17 witness: while a `threads` request is in flight, two later triggers
\* have armed the timer with another payload, that of a `stopped` event.
LaterTriggerKeptRefresh ==
    \E s \in SessionIds :
        /\ timer[s] /\ winTriggers[s] >= 2
        /\ timerArg[s] # NoDetails
        /\ \E r \in InFlight(s, "threads") : r.sd \notin {NoDetails, timerArg[s]}

\* C18: a thread that a `stopped` event named, that has not continued or
\* exited since and that the `threads` responses list, gets the state
\* Stopped: once no refresh is armed or in flight, no thread is still owed it.
StoppedThreadBecomesStopped ==
    \A s \in SessionIds : Quiescent(s) => owed[s] = NoThread

\* C19: after a `continued` event for all threads with no `stopped` event
\* since, once no refresh is armed or in flight, no thread of the session is
\* Stopped and the session has no current thread.
ContinuedIsNotUndone ==
    \A s \in SessionIds :
        (Quiescent(s) /\ resumed[s]) =>
            /\ StoppedIds(threads[s], heap[s]) = {}
            /\ currentThread[s] = NoObj

\* C20: after a refresh whose stopped details name a thread, without
\* preserveFocusHint, that the response lists, that thread is the current
\* thread, whatever its id.
StoppedThreadBecomesCurrent ==
    [][\A s \in SessionIds :
          (last'.op = "threads" /\ last'.s = s) =>
              \A req \in InFlight(s, "threads"), raws \in RawThreads :
                  (/\ ThreadsResponse(s, req, raws)
                   /\ req.sd # NoDetails
                   /\ ~req.sd.preserveFocusHint
                   /\ req.sd.threadId \in Ids(threads'[s]))
                      => currentThread'[s] = MapGet(threads'[s], req.sd.threadId)]_vars

\* the ids of an array of raw threads
RawIds(raws) == {raws[i] : i \in 1..Len(raws)}

\* C21: after a refresh whose stopped details carry preserveFocusHint, or
\* that has no stopped details, a session that had a current thread whose id
\* the response lists still has a current thread, with that id.
RefreshKeepsCurrentThread ==
    [][\A s \in SessionIds :
          (last'.op = "threads" /\ last'.s = s /\ currentThread[s] # NoObj) =>
              \A req \in InFlight(s, "threads"), raws \in RawThreads :
                  (/\ ThreadsResponse(s, req, raws)
                   /\ req.sd = NoDetails \/ req.sd.preserveFocusHint
                   /\ heap[s][currentThread[s]].raw \in RawIds(raws))
                      => /\ currentThread'[s] # NoObj
                         /\ heap'[s][currentThread'[s]].raw =
                                heap[s][currentThread[s]].raw]_vars

\* C22: after a refresh the ids of the thread map are exactly the ids of the
\* `threads` response: every id of the old map that the response does not
\* list is gone, and every id it lists is there.
RefreshMapIsResponse ==
    [][\A s \in SessionIds :
          (last'.op = "threads" /\ last'.s = s) =>
              \A req \in InFlight(s, "threads"), raws \in RawThreads :
                  ThreadsResponse(s, req, raws) =>
                      /\ Ids(threads'[s]) = RawIds(raws)
                      /\ Len(threads'[s]) = Len(raws)]_vars

\* C22 witness: a refresh has kept a thread of the old map, and a thread that
\* was in the map when pauseAll sent it a request is in the map no more.
RefreshDroppedAThread ==
    /\ last.op = "threads" /\ last.hit
    /\ batch[last.s].op = "pauseAll"
    /\ \E id \in batch[last.s].issued : id \notin Ids(threads[last.s])
    /\ threads[last.s] # <<>>

\* C23: the state of a session is Inactive exactly when it has no current
\* thread (as when it has just been created) and is otherwise the state of
\* its current thread; the state of the manager is the state of the active
\* session, and Inactive when no session is active.
StateFollowsCurrentThread ==
    /\ \A s \in SessionIds :
          /\ sessionState(heap[s], currentThread[s]) = "Inactive"
                 <=> currentThread[s] = NoObj
          /\ currentThread[s] # NoObj =>
                 sessionState(heap[s], currentThread[s]) =
                     ThreadState(heap[s][currentThread[s]])
          /\ (last.op = "create" /\ last.s = s) =>
                 sessionState(heap[s], currentThread[s]) = "Inactive"
    /\ managerState(sessions, activeDebugSessionId, heap, currentThread) =
           IF activeDebugSessionId = NoSession THEN "Inactive"
           ELSE sessionState(heap[activeDebugSessionId],
                             currentThread[activeDebugSessionId])

\* C23 witness: the active session is registered second and has a Stopped
\* current thread, so that the manager's state is Stopped, while the session
\* registered first is Inactive.
ActiveSessionStopped ==
    /\ Len(sessions) = 2
    /\ activeDebugSessionId = sessions[2]
    /\ currentThread[sessions[2]] # NoObj
    /\ managerState(sessions, activeDebugSessionId, heap, currentThread) = "Stopped"
    /\ sessionState(heap[sessions[1]], currentThread[sessions[1]]) = "Inactive"

\* C24: when the current thread has been recomputed (by a refresh, by a
\* `continued` event or by a `thread` exited event) and a thread of the map is
\* Stopped, the session has a current thread: its state is Stopped.
StoppedThreadGivesCurrentThread ==
    \A s \in SessionIds :
        (/\ last.s = s
         /\ last.op \in {"threads", "continued", "threadExited"}
         /\ StoppedIds(threads[s], heap[s]) # {})
            => /\ currentThread[s] # NoObj
               /\ sessionState(heap[s], currentThread[s]) = "Stopped"

\* C33: a `thread` event with reason `exited` drops the stopped details of the
\* named thread only and recomputes the current thread: the ids of the map
\* and the stopped details of every other thread stay as they are. A `thread`
\* event with reason `started` changes no thread, nor the current thread: it
\* only schedules a refresh of the threads that carries no stop details.
ThreadEventClearsOrSchedules ==
    [][\A s \in SessionIds :
          /\ (last'.op = "threadExited" /\ last'.s = s) =>
                /\ Ids(threads'[s]) = Ids(threads[s])
                /\ threads'[s] = threads[s]
                /\ \A id \in Ids(threads[s]) :
                      Details(s, heap', MapGet(threads[s], id)) =
                          IF id = last'.tid THEN NoDetails
                          ELSE Details(s, heap, MapGet(threads[s], id))
                /\ currentThread'[s] =
                       updateCurrentThread(threads'[s], heap'[s], currentThread[s],
                                           NoDetails)
                /\ UNCHANGED <<debounceVars, pending>>
          /\ OnThreadStarted(s) =>
                /\ UNCHANGED sessionVars
                /\ timer'[s] /\ timerArg'[s] = NoDetails
                /\ pending' = pending]_vars

\* C33 witness: the thread an `exited` event named was Stopped and is one of
\* two threads of the map; it is still in the map, and is Running.
ExitedThreadCleared ==
    /\ last.op = "threadExited" /\ last.hit
    /\ Len(threads[last.s]) = 2
    /\ last.tid \in Ids(threads[last.s])
    /\ last.tid \notin StoppedIds(threads[last.s], heap[last.s])

\* what a session owns: its thread map with the threads' fields, its current
\* thread, its capabilities, its sources, whether it is disposed and
\* whether it is registered
Owned(s) ==
    [threads |-> threads[s], heap |-> heap[s], currentThread |-> currentThread[s],
     capabilities |-> capabilities[s], sources |-> sources[s],
     life |-> life[s], registered |-> s \in Registered]

\* C34: sessions are independent. A handler of one session (an event, the
\* completion of a refresh, its destruction) leaves what every other session
\* owns as it is, and no step at all changes what two sessions own.
SessionsIndependent ==
    [][/\ \A s \in SessionIds :
             last'.s = s => \A o \in SessionIds \ {s} : Owned(o)' = Owned(o)
       /\ \A s, o \in SessionIds :
             s # o => (Owned(s)' = Owned(s) \/ Owned(o)' = Owned(o))]_vars

\* C34 witness: a session has been destroyed while the other one, still
\* registered and live, has a Stopped current thread, capabilities received
\* by event and a loaded source.
OtherSessionUntouched ==
    /\ last.op \in {"destroy", "exited"}
    /\ life[last.s] = "disposed"
    /\ \E o \in Registered \ {last.s} :
          /\ life[o] = "live"
          /\ currentThread[o] # NoObj
          /\ capabilities[o] = [a |-> 1, b |-> 2]
          /\ sources[o]["a"] # NoSource

\* step a comes before step b in the steps seq
ComesBefore(a, b, seq) ==
    \E i, j \in 1..Len(seq) : i < j /\ seq[i] = a /\ seq[j] = b

\* C32: when a thread that was not the current thread is made the current
\* thread, its frames are resolved before the session's change is signalled:
\* doSetCurrentThread resolves the thread before it fires the change.
FramesResolvedBeforeChange ==
    [][\A s \in SessionIds :
          (/\ last'.s = s
           /\ last'.op \in {"threads", "continued", "threadExited"}
           /\ currentThread'[s] # NoObj
           /\ currentThread'[s] # currentThread[s])
              => ComesBefore("resolve", "fireDidChange", signals'[s])]_vars

(***************************************************************************)
(* Properties of pauseAll and continueAll (SpecBatch)                      *)
(***************************************************************************)
\* the state of the threads a batch operation sends requests for, and the
\* command it sends
BatchState(op) == IF op = "pauseAll" THEN "Running" ELSE "Stopped"
BatchCommand(op) == IF op = "pauseAll" THEN "pause" ELSE "continue"

\* C11: pauseAll sends exactly one `pause` request for each thread that is
\* Running when it is called and no other request; continueAll sends exactly
\* one `continue` request for each thread that is Stopped and no other.
BatchSendsOnePerThread ==
    [][\A s \in SessionIds :
          (last'.s = s /\ last'.op \in {"pauseAll", "continueAll"}) =>
              /\ \A cmd \in {"pause", "continue"}, id \in ThreadIds :
                    CopiesIn(ThreadRequest(cmd, id), pending'[s]) =
                        CopiesIn(ThreadRequest(cmd, id), pending[s]) +
                        (IF /\ cmd = BatchCommand(last'.op)
                            /\ id \in Ids(threads[s])
                            /\ ThreadState(heap[s][MapGet(threads[s], id)]) =
                                   BatchState(last'.op)
                         THEN 1 ELSE 0)
              /\ \A r \in BagToSet(pending'[s]) :
                    r.cmd \notin {"pause", "continue"} =>
                        CopiesIn(r, pending'[s]) = CopiesIn(r, pending[s])]_vars

\* C11 witness: pauseAll ran over a Running and a Stopped thread and sent
\* one request, for the Running one.
PauseAllSkippedStopped ==
    /\ last.op = "pauseAll" /\ last.hit
    /\ Len(threads[last.s]) = 2
    /\ Cardinality(batch[last.s].issued) = 1
    /\ StoppedIds(threads[last.s], heap[last.s]) # {}
    /\ CountInFlight(last.s, "pause") = 1

\* C12: a batch operation never fails; it has completed exactly when none of
\* the requests it sent is still in flight, whichever of them failed.
BatchResolvesWhenAllFinished ==
    \A s \in SessionIds :
        batch[s].op # "none" =>
            batch[s].state =
                IF CountInFlight(s, BatchCommand(batch[s].op)) = 0
                THEN "resolved" ELSE "running"

\* C12 witness: a pauseAll of two threads has resolved, and the request that
\* finished last had failed.
BatchResolvedAfterFailure ==
    /\ last.op = "batchAnswer" /\ last.hit
    /\ batch[last.s].op = "pauseAll"
    /\ Cardinality(batch[last.s].issued) = 2
    /\ batch[last.s].state = "resolved"

(***************************************************************************)
(* Properties of the session's capabilities (SpecCaps)                     *)
(***************************************************************************)
\* C9: an `initialize` response is merged into the capabilities record: a
\* field the response does not have keeps its value.
InitializeMergesCapabilities ==
    [][\A s \in SessionIds :
          (last'.op = "initialize" /\ last'.s = s) =>
              \A req \in InFlight(s, "initialize"), body \in Capabilities :
                  InitializeResponse(s, req, body) =>
                      \A f \in CapFields :
                          body[f] = Absent => capabilities'[s][f] = capabilities[s][f]]_vars

\* C10: a `capabilities` event merges: afterwards every field the event names
\* has the event's value and every other field the value it had.
CapabilitiesEventMerges ==
    [][\A s \in SessionIds, caps \in Capabilities :
          (last'.op = "capabilities" /\ last'.s = s /\ OnCapabilities(s, caps)) =>
              \A f \in CapFields :
                  capabilities'[s][f] =
                      IF caps[f] # Absent THEN caps[f] ELSE capabilities[s][f]]_vars

\* C10 witness: {a:1}, then {b:2}, then {a:3} have been merged into
\* {a:3, b:2}: the last event overwrote a and left b.
CapabilitiesMerged ==
    /\ last.op = "capabilities" /\ last.hit
    /\ capabilities[last.s] = [f \in CapFields |-> IF f = "a" THEN 3 ELSE 2]

(***************************************************************************)
(* Properties of the manager (SpecHandshake, SpecRegistry)                 *)
(***************************************************************************)
Supported(request) == request \in {"launch", "attach"}

\* C5: create(id, config) with config.request neither `launch` nor `attach`
\* rejects: the promise it returned is rejected.
CreateRejectsUnsupported ==
    \A s \in SessionIds :
        (createResult[s] # "none" /\ ~Supported(configuration[s]))
            => createResult[s] = "rejected"

\* C6: for a session created with a request that is neither `launch` nor
\* `attach`, no request is ever sent (none is ever pending), and its creation
\* leaves the active session id as it was.
UnsupportedCreateSendsNothing ==
    [][\A s \in SessionIds :
          (life'[s] # "none" /\ ~Supported(configuration'[s])) =>
              /\ pending'[s] = EmptyBag
              /\ life[s] = "none" => activeDebugSessionId' = activeDebugSessionId]_vars

\* C6 witness: a session with an unsupported request has been created; it
\* is registered, has sent nothing and is not active.
UnsupportedSessionCreated ==
    /\ last.op = "create"
    /\ last.s \in Registered
    /\ ~Supported(configuration[last.s])
    /\ pending[last.s] = EmptyBag
    /\ activeDebugSessionId # last.s

\* C7: destroying the active session makes a remaining registered session
\* active, or none if it was the last; destroying another session leaves the
\* active session id unchanged.
DestroyUpdatesActive ==
    [][\A s \in SessionIds :
          (s \in Registered /\ s \notin Registered') =>
              IF activeDebugSessionId = s
              THEN IF sessions' # <<>>
                   THEN activeDebugSessionId' \in Registered'
                   ELSE activeDebugSessionId' = NoSession
              ELSE activeDebugSessionId' = activeDebugSessionId]_vars

\* C7 witness: the active session was destroyed and the remaining one is
\* now active.
ActivePromotedOnDestroy ==
    /\ last.op = "destroy" /\ last.hit
    /\ last.s \notin Registered
    /\ activeDebugSessionId \in Registered

\* C31: destroy() without an id leaves the registry empty and no session
\* active, and makes the calls of one destruction (stop, dispose, remove, the
\* destroyed notification), once each, for every session that was registered
\* and for no other.
DestroyAllDestroysEvery ==
    [][last'.op = "destroyAll" =>
          /\ sessions' = <<>>
          /\ activeDebugSessionId' = NoSession
          /\ \A s \in SessionIds :
                IF s \in Registered
                THEN /\ calls[s] = <<>>
                     /\ calls'[s] = DestroyCalls
                     /\ life'[s] = "disposed"
                ELSE /\ calls'[s] = calls[s]
                     /\ life'[s] = life[s]]_vars

\* C31 witness: destroy() has run with two sessions registered, one of them
\* active: both are destroyed and none is active.
AllSessionsDestroyed ==
    /\ last.op = "destroyAll" /\ last.hit
    /\ sessions = <<>>
    /\ activeDebugSessionId = NoSession
    /\ \A s \in SessionIds : calls[s] = DestroyCalls /\ life[s] = "disposed"

\* C29: in every reachable state the active session id is none or the id of
\* a registered session; and setActiveDebugSession with an id that is not
\* registered changes nothing.
ActiveSessionIsRegistered ==
    /\ [](activeDebugSessionId \in Registered \cup {NoSession})
    /\ [][(last'.op = "setActive" /\ last'.s # NoSession /\ last'.s \notin Registered) =>
              /\ activeDebugSessionId' = activeDebugSessionId
              /\ sessions' = sessions
              /\ life' = life
              /\ pending' = pending]_vars

\* C29 witness: setActiveDebugSession has been called with the id of a
\* session that was registered and is not any more, while another session
\* is active, and that one still is.
SetActiveOfRemovedIgnored ==
    /\ last.op = "setActive" /\ last.s # NoSession /\ ~last.hit
    /\ life[last.s] # "none"
    /\ activeDebugSessionId \in Registered

\* the calls of the manager that may change the active session id
ActiveOps == {"setActive", "remove", "destroy", "exited", "launchFailed"}

\* C30: the active-session-changed notification is fired exactly when the
\* active session id changes value, and it carries the session that was
\* active before the change and the session that is active after it, also
\* when the change comes from destroying or removing the active session.
ActiveChangeNotified ==
    [][IF last'.op \in ActiveOps
       THEN fired' = IF activeDebugSessionId' # activeDebugSessionId
                     THEN <<[old |-> activeDebugSessionId,
                             new |-> activeDebugSessionId']>>
                     ELSE <<>>
       ELSE /\ activeDebugSessionId' = activeDebugSessionId
            /\ fired' = fired]_vars

\* C13: destroying a registered session calls stop, disposes the session,
\* removes it and fires the destroyed notification, once each and in that
\* order (a registered session has had none of these calls); destroy of an
\* id that is not registered makes no call and changes no state.
DestroyCallsInOrder ==
    [][\A s \in SessionIds :
          (last'.s = s /\ last'.op \in {"destroy", "exited", "launchFailed"}) =>
              IF s \in Registered
              THEN /\ calls[s] = <<>>
                   /\ calls'[s] = <<"stop", "dispose", "remove", "destroyed">>
                   /\ life[s] = "live" /\ life'[s] = "disposed"
                   /\ s \notin Registered'
              ELSE /\ calls' = calls
                   /\ life' = life
                   /\ sessions' = sessions
                   /\ activeDebugSessionId' = activeDebugSessionId]_vars

\* C13 witness: destroy has run for a session while another one stays
\* registered: the session is gone and the calls of its one destruction are
\* recorded.
SessionDestroyed ==
    /\ last.op = "destroy"
    /\ last.s \notin Registered /\ sessions # <<>>
    /\ calls[last.s] = DestroyCalls

\* C14: when the `launch` or `attach` request of a session is rejected, the
\* session is destroyed (it is not registered afterwards, is disposed, and
\* stop and the destroyed notification are among its calls), one error
\* message is shown, and launchOrAttach rejects.
FailedLaunchDestroysAndNotifies ==
    [][\A s \in SessionIds :
          (last'.s = s /\ last'.op = "launchFailed") =>
              /\ s \notin Registered'
              /\ life'[s] = "disposed"
              /\ calls'[s] = DestroyCalls
              /\ errorsShown'[s] = errorsShown[s] + 1
              /\ last'.out = "rejected"]_vars

\* C14 witness: the launch of the active session failed while it was
\* registered: it is destroyed and its error is shown.
LaunchFailureShown ==
    /\ last.op = "launchFailed" /\ last.hit
    /\ last.s \notin Registered
    /\ errorsShown[last.s] = 1

\* the `launch` and `attach` requests of s in flight
LaunchesInFlight(s) == CountInFlight(s, "launch") + CountInFlight(s, "attach")

\* C25: a `launch` or `attach` request is sent only by the step in which the
\* `initialize` request of the same handshake is answered with success, one
\* per answer, and it is `attach` when config.request is `attach` and
\* `launch` when it is `launch`; no other step, the failure of `initialize`
\* among them, sends one.
LaunchFollowsInitialize ==
    [][\A s \in SessionIds :
          LaunchesInFlight(s)' > LaunchesInFlight(s) =>
              /\ last'.op = "initialize" /\ last'.s = s
              /\ configuration[s] \in {"launch", "attach"}
              /\ \E req \in InFlight(s, "initialize") :
                    /\ req.then = configuration[s]
                    /\ pending'[s] = (pending[s] (-) SetToBag({req}))
                                         (+) SetToBag({RequestThen(configuration[s], "")})]_vars

\* C25 witness: the `initialize` of a session configured to attach has been
\* answered, and its `attach` request, and no `launch`, is in flight.
AttachSentAfterInitialize ==
    /\ last.op = "initialize"
    /\ configuration[last.s] = "attach"
    /\ CountInFlight(last.s, "attach") = 1
    /\ CountInFlight(last.s, "launch") = 0
    /\ CountInFlight(last.s, "initialize") = 0

\* C26: a handshake that fails ends with its session destroyed: after the
\* step in which the `initialize` request of a handshake is rejected, as after
\* the one in which its `launch` or `attach` request is, the session is not
\* in the registry.
FailedHandshakeDestroysSession ==
    [][\A s \in SessionIds :
          /\ (last'.s = s /\ last'.op = "launchFailed") => s \notin Registered'
          /\ \A req \in InFlight(s, "initialize") :
                (req.then # "" /\ InitializeFailed(s, req)) => s \notin Registered']_vars

\* C27: a `terminated` event sends exactly one `disconnect` request, with
\* restart: true and followed by the handshake when its body has a truthy
\* restart, plain otherwise, and leaves the session registered and alive; the
\* handshake is re-run after a `disconnect` only if it was one of a restart;
\* an `exited` event leaves the session out of the registry.
TerminatedRestartsOrDisconnects ==
    [][\A s \in SessionIds :
          /\ (last'.s = s /\ last'.op = "terminated") =>
                /\ pending'[s] = pending[s] (+) SetToBag(
                       {RequestThen("disconnect", IF last'.hit THEN "restart" ELSE "")})
                /\ sessions' = sessions
                /\ life' = life
          /\ (last'.s = s /\ last'.op = "disconnected") =>
                (CountInFlight(s, "initialize")' > CountInFlight(s, "initialize")
                    <=> last'.hit /\ Supported(configuration[s]))
          /\ (last'.s = s /\ last'.op = "exited") => s \notin Registered']_vars

\* C27 witness: a `terminated` event without restart has sent its plain
\* `disconnect` request, and the session is registered.
PlainDisconnectSent ==
    /\ last.op = "terminated" /\ ~last.hit
    /\ last.s \in Registered
    /\ InFlight(last.s, "disconnect") = {RequestThen("disconnect", "")}
    /\ CountInFlight(last.s, "disconnect") = 1

\* the step is one of a restart of s: the `terminated` event that asks for
\* it, the end of its `disconnect`, the answer to an `initialize` that is not
\* the first of s
RestartStep(s) ==
    /\ last'.s = s
    /\ \/ last'.op \in {"terminated", "disconnected"} /\ last'.hit
       \/ last'.op = "initialize" /\ adapter[s]

\* C15: a restart sends `disconnect` with restart: true; the handshake is
\* re-run (an `initialize` is sent for a session that exists) only by the step
\* that ends that `disconnect`; and no step of a restart removes the session
\* from the registry, makes a call of its destruction or changes a field of
\* its configuration other than __restart.
RestartKeepsSessionAndConfiguration ==
    [][\A s \in SessionIds :
          /\ (last'.s = s /\ last'.op = "terminated" /\ last'.hit) =>
                pending'[s] = pending[s] (+) SetToBag({RequestThen("disconnect", "restart")})
          /\ (life[s] # "none" /\
                 CountInFlight(s, "initialize")' > CountInFlight(s, "initialize")) =>
                /\ last'.s = s /\ last'.op = "disconnected" /\ last'.hit
                /\ CountInFlight(s, "disconnect")' < CountInFlight(s, "disconnect")
          /\ RestartStep(s) =>
                /\ sessions' = sessions
                /\ calls'[s] = calls[s]
                /\ configuration'[s] = configuration[s]
                /\ marks'[s].noDebug = marks[s].noDebug]_vars

\* the handlers that are event listeners of a session, and the continuations
\* of requests that succeeded
ListenerOps == {"continued", "threadExited", "capabilities", "exited", "initialized",
                "terminated"}
ResponseOps == {"threads", "initialize", "launched", "disconnected"}

\* C16: once a session has been destroyed, which disposes it, every request
\* of it that is pending is rejected in the end (none stays pending for
\* ever), none is answered with success, and none of its event listeners
\* runs: no listener's handler, no successful continuation, and no trigger of
\* the threads refresh.
DisposeFailsPendingAndDetaches ==
    /\ \A s \in SessionIds : (calls[s] # <<>>) ~> (pending[s] = EmptyBag)
    /\ [][\A s \in SessionIds :
             calls[s] # <<>> =>
                 /\ last'.s = s => last'.op \notin ListenerOps \cup ResponseOps
                 /\ timer'[s] => timer[s]
                 /\ winTriggers'[s] = winTriggers[s]
                 /\ capabilities'[s] = capabilities[s]
                 /\ \A r \in BagToSet(pending[s]) :
                       CopiesIn(r, pending'[s]) < CopiesIn(r, pending[s]) =>
                           pending'[s] = pending[s] (-) SetToBag({r})]_vars

\* C16 witness: a session has just been destroyed, and so disposed, while a
\* `launch` request of it was pending.
DisposedWithRequestPending ==
    /\ last.op \in {"destroy", "exited"}
    /\ life[last.s] = "disposed"
    /\ CountInFlight(last.s, "launch") = 1

\* C28: once a session has been destroyed, no request is sent on its
\* connection any more: no step adds a request to those pending of it.
NoRequestAfterDestroy ==
    [][\A s \in SessionIds :
          life[s] = "disposed" =>
              \A r \in BagToSet(pending'[s]) :
                  CopiesIn(r, pending'[s]) <= CopiesIn(r, pending[s])]_vars

\* C8: an `initialized` event starts exactly one applySessionBreakpoints and
\* sends nothing; a `configurationDone` request is sent only by the step in
\* which one application completes, and one per completion.
BreakpointsBeforeConfigurationDone ==
    [][\A s \in SessionIds :
          /\ (last'.op = "initialized" /\ last'.s = s) =>
                /\ applying'[s] = applying[s] + 1
                /\ pending'[s] = pending[s]
          /\ CountInFlight(s, "configurationDone")' > CountInFlight(s, "configurationDone") =>
                /\ last'.op = "applied" /\ last'.s = s
                /\ applying'[s] = applying[s] - 1
                /\ CountInFlight(s, "configurationDone")' =
                       CountInFlight(s, "configurationDone") + 1]_vars

\* C8 witness: the application started by an `initialized` event has
\* completed and its `configurationDone` request is pending.
ConfigurationDoneAfterApply ==
    /\ last.op = "applied"
    /\ applying[last.s] = 0
    /\ CountInFlight(last.s, "configurationDone") = 1
====
